---------------------------- MODULE Spec2Model ----------------------------
(***************************************************************************)
(* A model of viewportCapture_2025_v03.py: the ViewportCapture tool of a   *)
(* Maya session.  The state is the tool object's fields, the widgets it    *)
(* owns, the host (viewport panel, camera, display preferences, the        *)
(* hardwareRenderingGlobals node, the gpuCache plugin) and the preset      *)
(* directories on disk.  There is one action per UI callback.              *)
(*                                                                         *)
(* Python values are records [t |-> type, v |-> <<text, ...>>]: the type   *)
(* tag is what isinstance() sees and v holds the repr of each component    *)
(* (one for a scalar, three for a colour triple).  A dict is a function    *)
(* from its keys; iteration follows KeyOrder.                              *)
(***************************************************************************)
EXTENDS Integers, Sequences, FiniteSets, TLC

VARIABLES
    host,                    \* the Maya scene and UI state the tool reads and writes
    disk,                    \* the preset directories and their .json files
    last_captured_settings,  \* self.last_captured_settings
    gpu_cache_enabled,       \* self.gpu_cache_enabled
    gpu_checkbox,            \* value of the "Enable GPU Cache" checkBox
    result_field,            \* text of the scrollField
    status_label,            \* text of the status label (without "Status: ")
    preset_list,             \* items of the textScrollList
    selected,                \* its selected item, or NoSelection
    log,                     \* host calls made by the last callback, in order
    op,                      \* the last callback: its name, inputs and outcome
    ops,                     \* callbacks and environment steps taken so far
    faults,                  \* host calls made to fail so far
    outside                  \* the preset directory was changed from outside the tool

vars == <<host, disk, last_captured_settings, gpu_cache_enabled, gpu_checkbox,
          result_field, status_label, preset_list, selected, log, op, ops, faults,
          outside>>

(***************************************************************************)
(* Bounds of the model.                                                    *)
(***************************************************************************)
MaxOps == 3
MaxFaults == 1

(***************************************************************************)
(* Python values.                                                          *)
(***************************************************************************)
None == [t |-> "none", v |-> <<>>]
PyBool(b) == [t |-> "bool", v |-> <<IF b THEN "True" ELSE "False">>]
PyInt(s) == [t |-> "int", v |-> <<s>>]
PyFloat(s) == [t |-> "float", v |-> <<s>>]
PyStr(s) == [t |-> "str", v |-> <<s>>]
PyTuple(a, b, c) == [t |-> "tuple", v |-> <<a, b, c>>]
PyList(a, b, c) == [t |-> "list", v |-> <<a, b, c>>]

IsValue(x) == DOMAIN x = {"t", "v"}

\* isinstance(value, (list, tuple))
IsSequence(val) == val.t \in {"list", "tuple"}

\* Python truth value of a value or of a dict
Truthy(x) ==
    IF IsValue(x)
    THEN CASE x.t = "none" -> FALSE
           [] x.t = "bool" -> x.v[1] = "True"
           [] x.t = "int" -> x.v[1] # "0"
           [] x.t = "float" -> x.v[1] # "0.0"
           [] x.t = "str" -> x.v[1] # ""
           [] OTHER -> Len(x.v) > 0
    ELSE DOMAIN x # {}

\* d.get(key, default)
Get(d, key, default) == IF key \in DOMAIN d THEN d[key] ELSE default

EmptyDict == [k \in {} |-> None]

\* F applied to the value of x
Strict(x, F(_)) == CHOOSE r \in {F(v) : v \in {x}} : TRUE

\* str.lower() on the strings the model uses
Lower(s) ==
    CASE s = "True" -> "true"
      [] s = "False" -> "false"
      [] s = "smoothShaded" -> "smoothshaded"
      [] s = "base_OpenGL_Renderer" -> "base_opengl_renderer"
      [] OTHER -> s

\* str(value).lower() of a scalar
StrLower(val) == Lower(val.v[1])

\* '{}'.format(value) of a scalar
Format(val) == val.v[1]

\* int(value) formatted: True -> 1, False -> 0
IntOf(val) ==
    CASE val.t = "bool" -> (IF val.v[1] = "True" THEN "1" ELSE "0")
      [] OTHER -> val.v[1]

(***************************************************************************)
(* The fixed schema.  display_attrs and hw2_attrs keep one attribute of    *)
(* each kind the code distinguishes: a plain flag, hwFog (mirrored onto    *)
(* the render globals), a quoted string enum; a boolean and a float3.      *)
(***************************************************************************)
display_attrs == <<"grid", "hwFog", "displayAppearance">>
hw2_attrs == [multiSampleEnable |-> "bool", hwFogColor |-> "float3"]
hw2_order == <<"multiSampleEnable", "hwFogColor">>
camera_gate_keys == <<"displayFilmGate", "displayResolution", "overscan">>
background_keys == <<"gradient", "color", "topColor", "bottomColor">>

\* Keys outside the schema that the host nevertheless knows: a modelEditor
\* flag and a hardwareRenderingGlobals attribute the tool never captures.
UnknownDisplayKey == "rendererName"
UnknownHw2Key == "ssaoSamples"

Sections == {"display", "background", "hardware2", "plugin_display",
             "camera_gate", "camera_mask", "camera_filmfit"}

Range(seq) == {seq[i] : i \in 1..Len(seq)}

\* dict iteration order: the schema's order, keys outside it last
KeyOrder == camera_gate_keys \o <<"displayGateMask", "filmFit">> \o display_attrs
            \o <<UnknownDisplayKey, "gpuCache">> \o background_keys
            \o hw2_order \o <<UnknownHw2Key>>

Items(d) == SelectSeq(KeyOrder, LAMBDA k : k \in DOMAIN d)

(***************************************************************************)
(* settings_to_mel.  The script is a sequence of lines, '\n'.join()ed by   *)
(* the code; a line is the sequence of its space-separated tokens.  Lines  *)
(* the interpreter does not act on are kept as one token, without the      *)
(* command-substitution quotes and the indentation of the source text.     *)
(***************************************************************************)
Placeholder == << <<"// No settings captured">> >>

MelHeader == <<
    <<"// Viewport Settings - Generated by viewportCapture">>,
    <<"global proc viewportCaptureApply()">>,
    <<"{">>,
    <<"string $panel = getPanel -withFocus;">>,
    <<"if (getPanel -typeOf $panel != \"modelPanel\")">>,
    <<"{">>,
    <<"string $modelPanels[] = getPanel -type \"modelPanel\";">>,
    <<"$panel = \"\";">>,
    <<"if (size($modelPanels) > 0)">>,
    <<"{">>,
    <<"$panel = $modelPanels[0];">>,
    <<"}">>,
    <<"if ($panel == \"\")">>,
    <<"{">>,
    <<"error \"No valid modelPanel found.\"">>,
    <<"return;">>,
    <<"}">>,
    <<"}">>,
    <<>>,
    <<"// Set Viewport 2.0 renderer">>,
    <<"modelEditor", "-e", "-rendererName", "\"vp2Renderer\"", "$panel;">>,
    <<>>,
    <<"string $camera = modelEditor -q -camera $panel;">>,
    <<"if ($camera != \"\")">>,
    <<"{">>,
    <<"// Camera Gate Settings">> >>

MelCameraLine(attr, text) == <<"camera", "-e", "-" \o attr, text, "$camera;">>

MelCameraGate(settings) ==
    IF "camera_gate" \in DOMAIN settings
    THEN LET camera_gate == settings["camera_gate"] IN
         (IF "displayFilmGate" \in DOMAIN camera_gate
          THEN <<MelCameraLine("displayFilmGate", StrLower(camera_gate["displayFilmGate"]))>>
          ELSE <<>>)
         \o (IF "displayResolution" \in DOMAIN camera_gate
             THEN <<MelCameraLine("displayResolution", StrLower(camera_gate["displayResolution"]))>>
             ELSE <<>>)
         \o (IF "overscan" \in DOMAIN camera_gate
             THEN <<MelCameraLine("overscan", Format(camera_gate["overscan"]))>>
             ELSE <<>>)
    ELSE <<>>

MelCameraMask(settings) ==
    IF "camera_mask" \in DOMAIN settings /\ "displayGateMask" \in DOMAIN settings["camera_mask"]
    THEN <<MelCameraLine("displayGateMask", StrLower(settings["camera_mask"]["displayGateMask"]))>>
    ELSE <<>>

MelCameraFilmFit(settings) ==
    IF "camera_filmfit" \in DOMAIN settings /\ "filmFit" \in DOMAIN settings["camera_filmfit"]
    THEN <<MelCameraLine("filmFit", Format(settings["camera_filmfit"]["filmFit"]))>>
    ELSE <<>>

MelGpuCache(settings) == <<
    <<"// GPU Cache Settings">>,
    <<"if (!pluginInfo -q -loaded \"gpuCache\")">>,
    <<"{">>,
    <<"loadPlugin", "\"gpuCache\";">>,
    <<"}">>,
    <<"modelEditor", "-e", "-pluginObjects", "gpuCacheDisplayFilter",
      StrLower(Get(Get(settings, "plugin_display", EmptyDict), "gpuCache", PyBool(FALSE))),
      "$panel;">>,
    <<>> >>

MelDisplayLines(attr, value) ==
    CASE attr = "hwFog" ->
           << <<"modelEditor", "-e", "-hwFog", StrLower(value), "$panel;">>,
              <<"if (!objExists \"hardwareRenderingGlobals\") {">>,
              <<"createNode", "\"hardwareRenderingGlobals\";">>,
              <<"}">>,
              <<"setAttr", "\"hardwareRenderingGlobals.hwFogEnable\"", IntOf(value) \o ";">> >>
      [] attr \in {"displayLights", "displayAppearance"} ->
           << <<"modelEditor", "-e", "-" \o attr, "\"" \o Format(value) \o "\"", "$panel;">> >>
      [] OTHER ->
           << <<"modelEditor", "-e", "-" \o attr, StrLower(value), "$panel;">> >>

RECURSIVE MelDisplayLoop(_, _)
MelDisplayLoop(display, keys) ==
    IF keys = <<>> THEN <<>>
    ELSE MelDisplayLines(Head(keys), display[Head(keys)])
         \o MelDisplayLoop(display, Tail(keys))

MelColorLine(name, color) ==
    <<"displayRGBColor", "\"" \o name \o "\"", color.v[1], color.v[2], color.v[3] \o ";">>

\* the background block without the gradient test on the bottom colour
MelBackgroundUngated(settings) ==
    IF "background" \in DOMAIN settings
    THEN LET bg == settings["background"] IN
         << <<>>, <<"// Background Settings">> >>
         \o (IF "gradient" \in DOMAIN bg
             THEN << <<"displayPref", "-displayGradient", StrLower(bg["gradient"]) \o ";">> >>
             ELSE <<>>)
         \o (IF "topColor" \in DOMAIN bg
             THEN <<MelColorLine("backgroundTop", bg["topColor"])>> ELSE <<>>)
         \o (IF "color" \in DOMAIN bg
             THEN <<MelColorLine("background", bg["color"])>> ELSE <<>>)
         \o (IF "bottomColor" \in DOMAIN bg
             THEN <<MelColorLine("backgroundBottom", bg["bottomColor"])>> ELSE <<>>)
    ELSE <<>>

MelBackground(settings) ==
    IF "background" \in DOMAIN settings
    THEN LET bg == settings["background"] IN
         << <<>>, <<"// Background Settings">> >>
         \o (IF "gradient" \in DOMAIN bg
             THEN << <<"displayPref", "-displayGradient", StrLower(bg["gradient"]) \o ";">> >>
             ELSE <<>>)
         \o (IF "topColor" \in DOMAIN bg
             THEN <<MelColorLine("backgroundTop", bg["topColor"])>> ELSE <<>>)
         \o (IF "color" \in DOMAIN bg
             THEN <<MelColorLine("background", bg["color"])>> ELSE <<>>)
         \o (IF Truthy(Get(bg, "gradient", None)) /\ "bottomColor" \in DOMAIN bg
             THEN <<MelColorLine("backgroundBottom", bg["bottomColor"])>> ELSE <<>>)
    ELSE <<>>

\* the hardware2 statement with a bool lowercased instead of int()
MelHw2LineLowered(attr, value) ==
    IF IsSequence(value)
    THEN <<"setAttr", "\"hardwareRenderingGlobals." \o attr \o "\"", "-type", "double3",
           value.v[1], value.v[2], value.v[3] \o ";">>
    ELSE <<"setAttr", "\"hardwareRenderingGlobals." \o attr \o "\"",
           (IF value.t = "bool" THEN StrLower(value) ELSE Format(value)) \o ";">>

MelHw2Line(attr, value) ==
    LET val == IF value.t = "bool" THEN PyInt(IntOf(value)) ELSE value IN
    IF IsSequence(val)
    THEN <<"setAttr", "\"hardwareRenderingGlobals." \o attr \o "\"", "-type", "double3",
           val.v[1], val.v[2], val.v[3] \o ";">>
    ELSE <<"setAttr", "\"hardwareRenderingGlobals." \o attr \o "\"", Format(val) \o ";">>

RECURSIVE MelHw2Loop(_, _)
MelHw2Loop(hw2, keys) ==
    IF keys = <<>> THEN <<>>
    ELSE <<MelHw2Line(Head(keys), hw2[Head(keys)])>> \o MelHw2Loop(hw2, Tail(keys))

MelHardware2(settings) ==
    IF "hardware2" \in DOMAIN settings
    THEN << <<>>, <<"// Hardware 2.0 Settings">>,
            <<"if (!objExists \"hardwareRenderingGlobals\") {">>,
            <<"createNode", "\"hardwareRenderingGlobals\";">>,
            <<"}">> >>
         \o MelHw2Loop(settings["hardware2"], Items(settings["hardware2"]))
    ELSE <<>>

MelFooter == << <<"}">>, <<>>, <<"viewportCaptureApply();">> >>

\* The outcome of a call: the exception it raises ("none" if it returns) and
\* the returned script.
settings_to_mel(settings) ==
    IF ~Truthy(settings)
    THEN [exc |-> "none", text |-> Placeholder]
    ELSE IF "display" \notin DOMAIN settings
    THEN [exc |-> "KeyError", text |-> <<>>]
    ELSE [exc |-> "none",
          text |-> MelHeader
                   \o MelCameraGate(settings) \o MelCameraMask(settings)
                   \o MelCameraFilmFit(settings)
                   \o << <<"}">>, <<>> >>
                   \o MelGpuCache(settings)
                   \o << <<"// Display Settings">> >>
                   \o MelDisplayLoop(settings["display"], Items(settings["display"]))
                   \o MelBackground(settings)
                   \o MelHardware2(settings)
                   \o MelFooter]

(***************************************************************************)
(* The host.  host.attr holds the camera fields, the modelEditor flags,    *)
(* the gpuCache display filter, the display preferences and the attributes *)
(* of hardwareRenderingGlobals, each coerced to the attribute's type.      *)
(***************************************************************************)
HostAttrType ==
    [displayFilmGate |-> "bool", displayResolution |-> "bool", overscan |-> "float",
     displayGateMask |-> "bool", filmFit |-> "str",
     grid |-> "bool", hwFog |-> "bool", displayAppearance |-> "str",
     gpuCacheDisplayFilter |-> "bool",
     displayGradient |-> "bool", background |-> "triple", backgroundTop |-> "triple",
     backgroundBottom |-> "triple",
     hwFogEnable |-> "bool", multiSampleEnable |-> "bool", hwFogColor |-> "triple",
     ssaoSamples |-> "int"]

HostAttrs == DOMAIN HostAttrType
GlobalsAttrs == {"hwFogEnable", "multiSampleEnable", "hwFogColor", "ssaoSamples"}

Reject == [t |-> "reject", v |-> <<>>]

\* What the host stores when a command is given val for an attribute of this type.
Coerce(type, val) ==
    CASE type = "bool" /\ val.t = "bool" -> val
      [] type = "bool" /\ val.t = "int" /\ val.v[1] \in {"0", "1"} -> PyBool(val.v[1] = "1")
      [] type = "int" /\ val.t = "int" -> val
      [] type = "float" /\ val.t = "float" -> val
      [] type = "str" /\ val.t = "str" -> val
      [] type = "triple" /\ val.t \in {"list", "tuple", "triple"} /\ Len(val.v) = 3 ->
             [t |-> "triple", v |-> val.v]
      [] OTHER -> Reject

\* The host attribute a command writes; "" when the host knows no such flag.
CallTarget(cmd, key) ==
    CASE cmd = "camera" /\ key \in Range(camera_gate_keys) \cup {"displayGateMask", "filmFit"} -> key
      [] cmd = "modelEditor" /\ key \in Range(display_attrs) -> key
      [] cmd = "modelEditor" /\ key = "pluginObjects" -> "gpuCacheDisplayFilter"
      [] cmd = "displayPref" /\ key = "displayGradient" -> key
      [] cmd = "displayRGBColor" /\ key \in {"background", "backgroundTop", "backgroundBottom"} -> key
      [] cmd = "setAttr" /\ key \in GlobalsAttrs -> key
      [] OTHER -> ""

CallId(cmd, key) == cmd \o ":" \o key

\* A running callback: the host, the calls made, whether an exception is
\* propagating, and the tool's status line and gpu fields.
Entry(cmd, key, val, ok) == [cmd |-> cmd, key |-> key, val |-> val, ok |-> ok]

Raise(st0, cmd, key, val) ==
    Strict(st0, LAMBDA st :
        [st EXCEPT !.exc = TRUE, !.log = Append(@, Entry(cmd, key, val, FALSE))])

\* One host command.  It raises when it is the injected fault, when the host
\* knows no such flag or attribute, or when the value does not fit.
Call(st0, cmd, key, val, fault) ==
    Strict(st0, LAMBDA st :
        IF st.exc THEN st
        ELSE IF CallId(cmd, key) = fault THEN Raise(st, cmd, key, val)
        ELSE CASE cmd = "undoInfo" ->
                    [st EXCEPT !.log = Append(@, Entry(cmd, key, val, TRUE))]
               [] cmd = "createNode" ->
                    [st EXCEPT !.host.hwNode = TRUE,
                               !.log = Append(@, Entry(cmd, key, val, TRUE))]
               [] cmd = "loadPlugin" ->
                    IF st.host.pluginLoadable
                    THEN [st EXCEPT !.host.pluginLoaded = TRUE,
                                    !.log = Append(@, Entry(cmd, key, val, TRUE))]
                    ELSE Raise(st, cmd, key, val)
               [] cmd = "modelEditor" /\ key = "rendererName" ->
                    IF val.t = "str"
                    THEN [st EXCEPT !.host.renderer = val.v[1],
                                    !.log = Append(@, Entry(cmd, key, val, TRUE))]
                    ELSE Raise(st, cmd, key, val)
               [] OTHER ->
                    LET target == CallTarget(cmd, key)
                        stored == IF target = "" THEN Reject
                                  ELSE Coerce(HostAttrType[target], val)
                    IN  IF stored = Reject \/ (cmd = "setAttr" /\ ~st.host.hwNode)
                        THEN Raise(st, cmd, key, val)
                        ELSE [st EXCEPT !.host.attr[target] = stored,
                                        !.log = Append(@, Entry(cmd, key, val, TRUE))])

\* try: <body> except Exception: update_status(warning)
Try(st0, body0, warning) ==
    Strict(st0, LAMBDA st :
        IF st.exc THEN st
        ELSE Strict(body0, LAMBDA body :
                 IF body.exc THEN [body EXCEPT !.exc = FALSE, !.status = warning]
                 ELSE body))

\* the same, the body given as an operator on the state it starts from
TryOn(st0, Body(_), warning) ==
    Strict(st0, LAMBDA st : Try(st, Body(st), warning))

\* a statement that raises (a KeyError, a MEL error)
Throw(st0) ==
    Strict(st0, LAMBDA st :
        IF st.exc THEN st ELSE [st EXCEPT !.exc = TRUE])

Start(h, status, gce, box) ==
    [host |-> h, log |-> <<>>, exc |-> FALSE, status |-> status, gce |-> gce, box |-> box]

(***************************************************************************)
(* ensure_gpu_plugin_loaded and ensure_viewport_20                         *)
(***************************************************************************)
\* the state after the call; the returned value is ensure_gpu_plugin_ok
ensure_gpu_plugin_loaded(st0, fault) ==
    Strict(st0, LAMBDA st :
        IF st.exc \/ st.host.pluginLoaded THEN st
        ELSE Try(st,
                 LET loaded == Call(st, "loadPlugin", "gpuCache", None, fault) IN
                 IF loaded.exc THEN loaded
                 ELSE [loaded EXCEPT !.status = "Loaded GPU Cache plugin"],
                 "Warning: Could not load GPU Cache plugin"))

ensure_gpu_plugin_ok(st0, fault) ==
    Strict(st0, LAMBDA st :
        st.host.pluginLoaded \/ ensure_gpu_plugin_loaded(st, fault).host.pluginLoaded)

ensure_viewport_20(st0, fault) ==
    Strict(st0, LAMBDA st :
        IF st.host.renderer # "vp2Renderer"
        THEN Try(st, Call(st, "modelEditor", "rendererName", PyStr("vp2Renderer"), fault),
                 "Warning: Could not set Viewport 2.0 renderer")
        ELSE st)

(***************************************************************************)
(* apply_settings, from cmds.undoInfo(openChunk=True) to the finally.      *)
(***************************************************************************)
CallIf(st0, cond, cmd, key, val, fault) ==
    Strict(st0, LAMBDA st :
        IF cond THEN Call(st, cmd, key, val, fault) ELSE st)

ApplyCameraGate(st0, settings, fault) ==
    Strict(st0, LAMBDA st :
        LET camera_gate_settings == Get(settings, "camera_gate", EmptyDict)
            has(k) == k \in DOMAIN camera_gate_settings
            val(k) == Get(camera_gate_settings, k, None)
            s1 == CallIf(st, has("displayFilmGate"), "camera", "displayFilmGate",
                         val("displayFilmGate"), fault)
            s2 == CallIf(s1, has("displayResolution"), "camera", "displayResolution",
                         val("displayResolution"), fault)
            s3 == CallIf(s2, has("overscan"), "camera", "overscan", val("overscan"), fault)
        IN  IF Truthy(camera_gate_settings)
            THEN Try(st, s3, "Warning: Could not apply camera gate settings")
            ELSE st)

ApplyCameraMask(st0, settings, fault) ==
    Strict(st0, LAMBDA st :
        LET camera_mask_settings == Get(settings, "camera_mask", EmptyDict) IN
        IF Truthy(camera_mask_settings)
        THEN Try(st,
                 CallIf(st, "displayGateMask" \in DOMAIN camera_mask_settings, "camera",
                        "displayGateMask", Get(camera_mask_settings, "displayGateMask", None),
                        fault),
                 "Warning: Could not apply camera gate mask setting")
        ELSE st)

ApplyCameraFilmFit(st0, settings, fault) ==
    Strict(st0, LAMBDA st :
        LET camera_filmfit_settings == Get(settings, "camera_filmfit", EmptyDict) IN
        IF Truthy(camera_filmfit_settings)
        THEN Try(st,
                 CallIf(st, "filmFit" \in DOMAIN camera_filmfit_settings, "camera", "filmFit",
                        Get(camera_filmfit_settings, "filmFit", None), fault),
                 "Warning: Could not apply camera film fit setting")
        ELSE st)

ApplyDisplayAttr(st0, attr, value, fault) ==
    Strict(st0, LAMBDA st :
        IF attr = "hwFog"
        THEN Strict(Call(st, "modelEditor", "hwFog", value, fault), LAMBDA s1 :
                 Call(CallIf(s1, ~s1.host.hwNode, "createNode",
                             "hardwareRenderingGlobals", None, fault),
                      "setAttr", "hwFogEnable", value, fault))
        ELSE Call(st, "modelEditor", attr, value, fault))

RECURSIVE ApplyDisplayLoop(_, _, _, _)
ApplyDisplayLoop(st0, display, keys, fault) ==
    Strict(st0, LAMBDA st :
        IF keys = <<>> THEN st
        ELSE ApplyDisplayLoop(
                 Try(st, ApplyDisplayAttr(st, Head(keys), display[Head(keys)], fault),
                     "Warning: Could not apply " \o Head(keys)),
                 display, Tail(keys), fault))

ApplyDisplay(st0, settings, fault) ==
    Strict(st0, LAMBDA st :
        IF "display" \notin DOMAIN settings THEN Throw(st)
        ELSE ApplyDisplayLoop(st, settings["display"], Items(settings["display"]), fault))

ApplyGpuCache(st0, settings, fault) ==
    Strict(st0, LAMBDA st :
        IF st.exc \/ "plugin_display" \notin DOMAIN settings THEN st
        ELSE IF "gpuCache" \notin DOMAIN settings["plugin_display"] THEN Throw(st)
        ELSE LET gpu_state == settings["plugin_display"]["gpuCache"]
                 s1 == IF Truthy(gpu_state) THEN ensure_gpu_plugin_loaded(st, fault) ELSE st
                 on == Truthy(gpu_state) /\ ensure_gpu_plugin_ok(st, fault)
                 s2 == Call(s1, "modelEditor", "pluginObjects", PyBool(on), fault)
             IN  Strict(s2, LAMBDA s :
                     IF s.exc THEN s
                     ELSE [s EXCEPT !.gce = gpu_state, !.box = Truthy(gpu_state)]))

ApplyBackground(st0, settings, fault) ==
    Strict(st0, LAMBDA st :
        LET bg == Get(settings, "background", EmptyDict)
            has(k) == k \in DOMAIN bg
            val(k) == Get(bg, k, None)
            s1 == CallIf(st, has("gradient"), "displayPref", "displayGradient",
                         val("gradient"), fault)
            s2 == CallIf(s1, has("topColor"), "displayRGBColor", "backgroundTop",
                         val("topColor"), fault)
            s3 == CallIf(s2, has("color"), "displayRGBColor", "background", val("color"), fault)
            s4 == CallIf(s3, Truthy(val("gradient")) /\ has("bottomColor"), "displayRGBColor",
                         "backgroundBottom", val("bottomColor"), fault)
        IN  Try(st, s4, "Warning: Could not apply background settings"))

RECURSIVE ApplyHw2Loop(_, _, _, _)
ApplyHw2Loop(st0, hw2_settings, keys, fault) ==
    Strict(st0, LAMBDA st :
        IF keys = <<>> THEN st
        ELSE ApplyHw2Loop(
                 Try(st, Call(st, "setAttr", Head(keys), hw2_settings[Head(keys)], fault),
                     "Warning: Could not apply HW2 setting " \o Head(keys)),
                 hw2_settings, Tail(keys), fault))

ApplyHardware2(st0, settings, fault) ==
    Strict(st0, LAMBDA st :
        LET hw2_settings == Get(settings, "hardware2", EmptyDict) IN
        IF st.exc \/ ~Truthy(hw2_settings) THEN st
        ELSE ApplyHw2Loop(
                 CallIf(st, ~st.host.hwNode, "createNode", "hardwareRenderingGlobals", None, fault),
                 hw2_settings, Items(hw2_settings), fault))

\* the sections with hardware2 written ahead of the background
ApplySectionsHw2First(st0, settings, fault) ==
    Strict(st0, LAMBDA st :
        ApplyBackground(
          ApplyHardware2(
            ApplyGpuCache(
              ApplyDisplay(
                ApplyCameraFilmFit(
                  ApplyCameraMask(
                    ApplyCameraGate(st, settings, fault),
                    settings, fault),
                  settings, fault),
                settings, fault),
              settings, fault),
            settings, fault),
          settings, fault))

\* the body of the outer try, after the chunk is opened
ApplySections(st0, settings, fault) ==
    Strict(st0, LAMBDA st :
        ApplyHardware2(
          ApplyBackground(
            ApplyGpuCache(
              ApplyDisplay(
                ApplyCameraFilmFit(
                  ApplyCameraMask(
                    ApplyCameraGate(st, settings, fault),
                    settings, fault),
                  settings, fault),
                settings, fault),
              settings, fault),
            settings, fault),
          settings, fault))

\* ensure_viewport_20, then try / except / finally
ApplyRun(st0, settings, fault) ==
    Strict(Call(ensure_viewport_20(st0, fault), "undoInfo", "openChunk", None, fault),
           LAMBDA s1 :
        Strict(ApplySections(s1, settings, fault), LAMBDA s2 :
            Call(IF s2.exc
                 THEN [s2 EXCEPT !.exc = FALSE, !.status = "Error applying settings"]
                 ELSE [s2 EXCEPT !.status = "Settings applied successfully"],
                 "undoInfo", "closeChunk", None, fault)))

(***************************************************************************)
(* mel.eval(mel_code): the host's interpreter on the emitted script.  A    *)
(* MEL error ends the procedure and mel.eval raises RuntimeError.          *)
(***************************************************************************)
FloatTexts == {"0.0", "0.1", "0.2", "0.3", "0.4", "0.5", "0.6", "0.7", "1.0", "1.3"}
IntTexts == {"0", "1", "8", "16"}
StrTexts == {"fill", "horizontal", "smoothShaded", "wireframe", "vp2Renderer",
             "base_OpenGL_Renderer", "modelPanel4"}

MelFlags == Range(KeyOrder) \cup {"rendererName", "pluginObjects", "displayGradient", "background",
                                  "backgroundTop", "backgroundBottom", "hwFogEnable"}

\* the word of a token "-word", "word;", "<quote>word<quote>" or
\* "<quote>hardwareRenderingGlobals.word<quote>"
MelFlag(tok) ==
    LET hit == {k \in MelFlags :
                   tok \in {"-" \o k, "\"" \o k \o "\"",
                            "\"hardwareRenderingGlobals." \o k \o "\""}}
    IN  IF hit = {} THEN "" ELSE CHOOSE k \in hit : TRUE

\* the value a MEL argument denotes
MelValue(tok) ==
    LET is(s) == tok \in {s, s \o ";"}
        floats == {s \in FloatTexts : is(s)}
        ints == {s \in IntTexts : is(s)}
        quoted == {s \in StrTexts : is("\"" \o s \o "\"")}
        words == {s \in StrTexts : is(s) \/ is(Lower(s))}
    IN  CASE is("true") -> PyBool(TRUE)
          [] is("false") -> PyBool(FALSE)
          [] floats # {} -> PyFloat(CHOOSE s \in floats : TRUE)
          [] ints # {} -> PyInt(CHOOSE s \in ints : TRUE)
          [] quoted # {} -> PyStr(CHOOSE s \in quoted : TRUE)
          [] words # {} -> PyStr(IF is(CHOOSE s \in words : TRUE)
                                 THEN CHOOSE s \in words : TRUE
                                 ELSE Lower(CHOOSE s \in words : TRUE))
          [] OTHER -> Reject

MelTriple(a, b, c) ==
    [t |-> "triple", v |-> <<MelValue(a).v[1], MelValue(b).v[1], MelValue(c).v[1]>>]

ExecLine(st0, line, fault) ==
    Strict(st0, LAMBDA st :
        IF line = <<>> THEN st
        ELSE CASE line[1] = "camera" ->
                    Call(st, "camera", MelFlag(line[3]), MelValue(line[4]), fault)
               [] line[1] = "modelEditor" /\ line[3] = "-pluginObjects" ->
                    Call(st, "modelEditor", "pluginObjects", MelValue(line[5]), fault)
               [] line[1] = "modelEditor" ->
                    Call(st, "modelEditor", MelFlag(line[3]), MelValue(line[4]), fault)
               [] line[1] = "loadPlugin" ->
                    CallIf(st, ~st.host.pluginLoaded, "loadPlugin", "gpuCache", None, fault)
               [] line[1] = "createNode" ->
                    CallIf(st, ~st.host.hwNode, "createNode", "hardwareRenderingGlobals",
                           None, fault)
               [] line[1] = "displayPref" ->
                    Call(st, "displayPref", MelFlag(line[2]), MelValue(line[3]), fault)
               [] line[1] = "displayRGBColor" ->
                    Call(st, "displayRGBColor", MelFlag(line[2]),
                         MelTriple(line[3], line[4], line[5]), fault)
               [] line[1] = "setAttr" /\ Len(line) = 7 ->
                    Call(st, "setAttr", MelFlag(line[2]),
                         MelTriple(line[5], line[6], line[7]), fault)
               [] line[1] = "setAttr" ->
                    Call(st, "setAttr", MelFlag(line[2]), MelValue(line[3]), fault)
               [] OTHER -> st)

\* the lines lo..hi in order, stopping at the first error; the range is
\* halved so that long scripts do not nest deeply
RECURSIVE ExecLines(_, _, _, _, _)
ExecLines(st0, text, lo, hi, fault) ==
    Strict(st0, LAMBDA st :
        IF lo > hi \/ st.exc THEN st
        ELSE IF lo = hi THEN ExecLine(st, text[lo], fault)
        ELSE ExecLines(ExecLines(st, text, lo, (lo + hi) \div 2, fault),
                       text, (lo + hi) \div 2 + 1, hi, fault))

\* the placeholder is one comment; any other script defines and calls the
\* procedure, which errors when there is no modelPanel
MelEval(st0, text, fault) ==
    Strict(st0, LAMBDA st :
        IF text = Placeholder THEN st
        ELSE IF ~st.host.panel THEN Throw(st)
        ELSE ExecLines(st, text, 1, Len(text), fault))

(***************************************************************************)
(* capture_settings                                                        *)
(***************************************************************************)
Put(d, k, val) == [x \in DOMAIN d \cup {k} |-> IF x = k THEN val ELSE d[x]]

QueryId(cmd, key) == "q:" \o cmd \o ":" \o key

\* What a query returns: displayRGBColor gives a list, getAttr of a float3
\* gives [(r, g, b)], of which the code keeps the tuple.
Query(h, cmd, key) ==
    LET stored == h.attr[key] IN
    IF stored.t = "triple"
    THEN [t |-> IF cmd = "getAttr" THEN "tuple" ELSE "list", v |-> stored.v]
    ELSE stored

\* settings[section][key] = <query>; the query raises when it is the fault
Read(st0, section, key, cmd, attr, fault) ==
    Strict(st0, LAMBDA st :
        IF st.exc THEN st
        ELSE IF QueryId(cmd, attr) = fault \/ (cmd = "getAttr" /\ ~st.host.hwNode)
        THEN [st EXCEPT !.exc = TRUE]
        ELSE [st EXCEPT !.snap[section] = Put(@, key, Query(st.host, cmd, attr))])

CaptureDisplayAttr(st0, attr, fault) ==
    Strict(st0, LAMBDA st :
        IF attr = "hwFog"
        THEN Strict(Read(st, "display", "hwFog", "modelEditor", "hwFog", fault),
                    LAMBDA s1 :
                 IF s1.exc THEN s1
                 ELSE Call(CallIf(s1, ~s1.host.hwNode, "createNode",
                                  "hardwareRenderingGlobals", None, fault),
                           "setAttr", "hwFogEnable", s1.snap["display"]["hwFog"], fault))
        ELSE Read(st, "display", attr, "modelEditor", attr, fault))

RECURSIVE CaptureDisplayLoop(_, _, _)
CaptureDisplayLoop(st0, attrs, fault) ==
    Strict(st0, LAMBDA st :
        IF attrs = <<>> THEN st
        ELSE CaptureDisplayLoop(
                 Try(st, CaptureDisplayAttr(st, Head(attrs), fault),
                     "Warning: Could not capture " \o Head(attrs)),
                 Tail(attrs), fault))

RECURSIVE CaptureHw2Loop(_, _, _)
CaptureHw2Loop(st0, attrs, fault) ==
    Strict(st0, LAMBDA st :
        IF attrs = <<>> THEN st
        ELSE CaptureHw2Loop(
                 Try(st, Read(st, "hardware2", Head(attrs), "getAttr", Head(attrs), fault),
                     "Warning: Could not capture HW2 setting " \o Head(attrs)),
                 Tail(attrs), fault))

\* the running state after capture_settings(panel); .snap is what it returns
capture_settings(st0, fault) ==
    Strict(st0, LAMBDA st :
        LET s0 == [host |-> st.host, log |-> st.log, exc |-> st.exc, status |-> st.status,
                   gce |-> st.gce, box |-> st.box,
                   snap |-> [panel |-> PyStr("modelPanel4"),
                             display |-> EmptyDict,
                             background |-> EmptyDict,
                             hardware2 |-> EmptyDict,
                             plugin_display |-> [gpuCache |-> st.gce],
                             camera_gate |-> EmptyDict,
                             camera_mask |-> EmptyDict,
                             camera_filmfit |-> EmptyDict]]
            Gate(s) ==
                Read(Read(Read(s, "camera_gate", "displayFilmGate", "camera",
                               "displayFilmGate", fault),
                          "camera_gate", "displayResolution", "camera",
                          "displayResolution", fault),
                     "camera_gate", "overscan", "camera", "overscan", fault)
            Mask(s) == Read(s, "camera_mask", "displayGateMask", "camera",
                            "displayGateMask", fault)
            FilmFit(s) == Read(s, "camera_filmfit", "filmFit", "camera", "filmFit", fault)
            Background(s) ==
                Read(Read(Read(Read(s, "background", "gradient", "displayPref",
                                    "displayGradient", fault),
                               "background", "color", "displayRGBColor", "background",
                               fault),
                          "background", "topColor", "displayRGBColor", "backgroundTop",
                          fault),
                     "background", "bottomColor", "displayRGBColor", "backgroundBottom",
                     fault)
            s1 == TryOn(s0, Gate, "Warning: Could not capture camera gate settings")
            s2 == TryOn(s1, Mask, "Warning: Could not capture camera gate mask setting")
            s3 == TryOn(s2, FilmFit, "Warning: Could not capture camera film fit setting")
            s4 == CaptureDisplayLoop(s3, display_attrs, fault)
            s5 == TryOn(s4, Background, "Warning: Could not capture background settings")
            s6 == Strict(s5, LAMBDA s :
                      CallIf(s, ~s.host.hwNode, "createNode", "hardwareRenderingGlobals",
                             None, fault))
        IN  CaptureHw2Loop(s6, hw2_order, fault))

(***************************************************************************)
(* json.dump and json.load.  A document mirrors the dict; a JSON value is  *)
(* [j |-> kind, v |-> texts], the kind being the lexical form written.     *)
(***************************************************************************)
IsJson(x) == DOMAIN x = {"j", "v"}

Corrupt == [j |-> "corrupt", v |-> <<>>]

\* a serializer that writes a bool as the string of its name
DumpValueBoolAsString(val) ==
    CASE val.t = "bool" -> [j |-> "string", v |-> <<Lower(val.v[1])>>]
      [] val.t = "none" -> [j |-> "literal", v |-> <<"null">>]
      [] val.t = "int" -> [j |-> "int", v |-> val.v]
      [] val.t = "float" -> [j |-> "real", v |-> val.v]
      [] val.t = "str" -> [j |-> "string", v |-> val.v]
      [] OTHER -> [j |-> "array", v |-> val.v]

DumpValue(val) ==
    CASE val.t = "bool" -> [j |-> "literal", v |-> <<Lower(val.v[1])>>]
      [] val.t = "none" -> [j |-> "literal", v |-> <<"null">>]
      [] val.t = "int" -> [j |-> "int", v |-> val.v]
      [] val.t = "float" -> [j |-> "real", v |-> val.v]
      [] val.t = "str" -> [j |-> "string", v |-> val.v]
      [] OTHER -> [j |-> "array", v |-> val.v]

LoadValue(jv) ==
    CASE jv.j = "literal" /\ jv.v[1] = "true" -> PyBool(TRUE)
      [] jv.j = "literal" /\ jv.v[1] = "false" -> PyBool(FALSE)
      [] jv.j = "literal" -> None
      [] jv.j = "int" -> [t |-> "int", v |-> jv.v]
      [] jv.j = "real" -> [t |-> "float", v |-> jv.v]
      [] jv.j = "string" -> [t |-> "str", v |-> jv.v]
      [] OTHER -> [t |-> "list", v |-> jv.v]

json_dump(settings) ==
    [sec \in DOMAIN settings |->
        IF IsValue(settings[sec]) THEN DumpValue(settings[sec])
        ELSE [k \in DOMAIN settings[sec] |-> DumpValue(settings[sec][k])]]

\* a load that keeps the sections of the held snapshot the file lacks
json_loadMerging(doc) ==
    LET old == IF IsValue(last_captured_settings) THEN EmptyDict
               ELSE last_captured_settings
    IN  [sec \in DOMAIN doc \cup DOMAIN old |->
            IF sec \notin DOMAIN doc THEN old[sec]
            ELSE IF IsJson(doc[sec]) THEN LoadValue(doc[sec])
            ELSE [k \in DOMAIN doc[sec] |-> LoadValue(doc[sec][k])]]

json_load(doc) ==
    [sec \in DOMAIN doc |->
        IF IsJson(doc[sec]) THEN LoadValue(doc[sec])
        ELSE [k \in DOMAIN doc[sec] |-> LoadValue(doc[sec][k])]]

(***************************************************************************)
(* The preset directory: get_preset_dir, refresh_preset_list.              *)
(***************************************************************************)
PresetNames == <<"a", "b">>
NoSelection == ""

\* self.custom_preset_path is a non-empty literal: only os.path.isdir decides
get_preset_dir(d) == IF d.customIsDir THEN "custom" ELSE "fallback"

\* the disk after get_preset_dir: os.makedirs creates the fallback directory
MakeDirs(d) == IF d.customIsDir THEN d ELSE [d EXCEPT !.fallbackExists = TRUE]

Files(d) == d.dirs[get_preset_dir(d)]

\* the names in descending order
sortedDescending(names) ==
    LET up == SelectSeq(PresetNames, LAMBDA n : n \in names)
    IN  [i \in 1..Len(up) |-> up[Len(up) + 1 - i]]

sorted(names) == SelectSeq(PresetNames, LAMBDA n : n \in names)

\* the items appended by refresh_preset_list
ListedPresets(d) == sorted(DOMAIN Files(d))

(***************************************************************************)
(* Scenes and preset files the model draws from.                           *)
(***************************************************************************)
LookA ==
    [displayFilmGate |-> PyBool(FALSE), displayResolution |-> PyBool(FALSE),
     overscan |-> PyFloat("1.0"), displayGateMask |-> PyBool(FALSE),
     filmFit |-> PyStr("fill"),
     grid |-> PyBool(TRUE), hwFog |-> PyBool(FALSE),
     displayAppearance |-> PyStr("smoothShaded"),
     gpuCacheDisplayFilter |-> PyBool(FALSE),
     displayGradient |-> PyBool(TRUE),
     background |-> [t |-> "triple", v |-> <<"0.5", "0.5", "0.5">>],
     backgroundTop |-> [t |-> "triple", v |-> <<"0.2", "0.2", "0.2">>],
     backgroundBottom |-> [t |-> "triple", v |-> <<"0.1", "0.1", "0.1">>],
     hwFogEnable |-> PyBool(FALSE), multiSampleEnable |-> PyBool(FALSE),
     hwFogColor |-> [t |-> "triple", v |-> <<"0.1", "0.2", "0.3">>],
     ssaoSamples |-> PyInt("16")]

LookB ==
    [displayFilmGate |-> PyBool(TRUE), displayResolution |-> PyBool(TRUE),
     overscan |-> PyFloat("1.3"), displayGateMask |-> PyBool(TRUE),
     filmFit |-> PyStr("horizontal"),
     grid |-> PyBool(FALSE), hwFog |-> PyBool(TRUE),
     displayAppearance |-> PyStr("wireframe"),
     gpuCacheDisplayFilter |-> PyBool(TRUE),
     displayGradient |-> PyBool(FALSE),
     background |-> [t |-> "triple", v |-> <<"0.3", "0.3", "0.3">>],
     backgroundTop |-> [t |-> "triple", v |-> <<"0.4", "0.4", "0.4">>],
     backgroundBottom |-> [t |-> "triple", v |-> <<"0.6", "0.6", "0.6">>],
     hwFogEnable |-> PyBool(TRUE), multiSampleEnable |-> PyBool(TRUE),
     hwFogColor |-> [t |-> "triple", v |-> <<"0.7", "0.6", "0.4">>],
     ssaoSamples |-> PyInt("8")]

\* the attributes that belong to a viewport panel and its camera
PanelAttrs == Range(camera_gate_keys) \cup {"displayGateMask", "filmFit"}
              \cup Range(display_attrs)

Scene(look, panel, renderer, loadable, node) ==
    [panel |-> panel, renderer |-> renderer, pluginLoaded |-> FALSE,
     pluginLoadable |-> loadable, hwNode |-> node, attr |-> look]

InitHosts ==
    {Scene(LookA, TRUE, "vp2Renderer", TRUE, TRUE),
     Scene(LookA, TRUE, "base_OpenGL_Renderer", FALSE, FALSE),
     Scene(LookA, FALSE, "vp2Renderer", TRUE, TRUE)}

Restrict(f, keys) == [k \in DOMAIN f \cap keys |-> f[k]]

\* a snapshot as capture_settings returns it from a scene
Captured(look, gpu) ==
    capture_settings(
        Start(Scene(look, TRUE, "vp2Renderer", TRUE, TRUE), "", PyBool(gpu), gpu),
        "none").snap

SnapB == Captured(LookB, TRUE)

\* preset files found on disk when the tool starts: written by the tool
\* earlier, by another version of it, or edited by hand
DocFull == json_dump(SnapB)
DocNoDisplay == json_dump(Restrict(SnapB, {"background", "hardware2", "plugin_display"}))
DocNoPlugin == json_dump(Restrict(Captured(LookA, FALSE),
                                  {"display", "background", "camera_gate"}))
DocUnknown ==
    json_dump([SnapB EXCEPT
        !["display"] = Put(@, UnknownDisplayKey, PyStr("base_OpenGL_Renderer")),
        !["hardware2"] = Put(@, UnknownHw2Key, PyInt("8"))])
EmptyDoc == EmptyDict

PresetDocs == {DocFull, DocNoDisplay, DocNoPlugin, DocUnknown, EmptyDoc, Corrupt}

DiskWith(custom, files) ==
    [customIsDir |-> custom, fallbackExists |-> ~custom,
     dirs |-> [d \in {"custom", "fallback"} |->
                  IF d = (IF custom THEN "custom" ELSE "fallback") THEN files
                  ELSE EmptyDict]]

InitDisks ==
    {DiskWith(FALSE, EmptyDict), DiskWith(TRUE, [b |-> DocFull])}
    \cup {DiskWith(FALSE, [a |-> doc]) : doc \in PresetDocs}

(***************************************************************************)
(* The tool after ViewportCapture(): __init__ ends with create_main_ui     *)
(* and refresh_preset_list.                                                *)
(***************************************************************************)
InitialText == << <<"// Capture a viewport to see settings">> >>

Done(name, args, fault, branch) ==
    [name |-> name, args |-> args, fault |-> fault, branch |-> branch]

Init ==
    /\ host \in InitHosts
    /\ disk \in InitDisks
    /\ last_captured_settings = None
    /\ gpu_cache_enabled = PyBool(FALSE)
    /\ gpu_checkbox = FALSE
    /\ result_field = InitialText
    /\ status_label = "Ready"
    /\ preset_list = ListedPresets(disk)
    /\ selected = NoSelection
    /\ log = <<>>
    /\ op = Done("__init__", <<>>, "none", "")
    /\ ops = 0
    /\ faults = 0
    /\ outside = FALSE

\* the host calls a fault may hit: every field write of apply_settings and of
\* the emitted script, and every field query of capture_settings
WriteFaults ==
    {CallId("camera", k) : k \in Range(camera_gate_keys) \cup {"displayGateMask", "filmFit"}}
    \cup {CallId("modelEditor", k) : k \in Range(display_attrs) \cup {"pluginObjects"}}
    \cup {CallId("displayPref", "displayGradient")}
    \cup {CallId("displayRGBColor", k) : k \in {"background", "backgroundTop", "backgroundBottom"}}
    \cup {CallId("setAttr", k) : k \in Range(hw2_order)}

ReadFaults ==
    {QueryId("camera", k) : k \in Range(camera_gate_keys) \cup {"displayGateMask", "filmFit"}}
    \cup {QueryId("modelEditor", k) : k \in Range(display_attrs)}
    \cup {QueryId("displayPref", "displayGradient")}
    \cup {QueryId("displayRGBColor", k) : k \in {"background", "backgroundTop", "backgroundBottom"}}
    \cup {QueryId("getAttr", k) : k \in Range(hw2_order)}

\* one more callback or environment step, with at most MaxFaults faults
Budget(fault) ==
    /\ ops < MaxOps
    /\ fault # "none" => faults < MaxFaults
    /\ ops' = ops + 1
    /\ faults' = IF fault = "none" THEN faults ELSE faults + 1

Running == Start(host, status_label, gpu_cache_enabled, gpu_checkbox)

(***************************************************************************)
(* capture_viewport                                                        *)
(***************************************************************************)
CaptureViewport(fault) ==
    /\ Budget(fault)
    /\ IF ~host.panel
       THEN /\ status_label' = "No active viewport found"
            /\ log' = <<>>
            /\ op' = Done("capture_viewport", <<>>, fault, "no-viewport")
            /\ UNCHANGED <<host, last_captured_settings, result_field>>
       ELSE \E st \in {capture_settings(ensure_viewport_20(Running, fault), fault)} :
            \E mel_code \in {settings_to_mel(st.snap)} :
                /\ host' = st.host
                /\ log' = st.log
                /\ last_captured_settings' = st.snap
                /\ result_field' = mel_code.text
                /\ status_label' = "Settings captured from modelPanel4"
                /\ op' = Done("capture_viewport", <<>>, fault, "captured")
    /\ UNCHANGED <<disk, gpu_cache_enabled, gpu_checkbox, preset_list, selected, outside>>

(***************************************************************************)
(* apply_settings                                                          *)
(***************************************************************************)
ApplySettings(fault) ==
    /\ Budget(fault)
    /\ IF ~Truthy(last_captured_settings)
       THEN /\ status_label' = "No settings to apply"
            /\ log' = <<>>
            /\ op' = Done("apply_settings", <<>>, fault, "no-settings")
            /\ UNCHANGED <<host, gpu_cache_enabled, gpu_checkbox>>
       ELSE IF ~host.panel
       THEN /\ status_label' = "No active viewport found"
            /\ log' = <<>>
            /\ op' = Done("apply_settings", <<>>, fault, "no-viewport")
            /\ UNCHANGED <<host, gpu_cache_enabled, gpu_checkbox>>
       ELSE \E st \in {ApplyRun(Running, last_captured_settings, fault)} :
            /\ host' = st.host
            /\ log' = st.log
            /\ status_label' = st.status
            /\ gpu_cache_enabled' = st.gce
            /\ gpu_checkbox' = st.box
            /\ op' = Done("apply_settings", <<>>, fault, "applied")
    /\ UNCHANGED <<disk, last_captured_settings, result_field, preset_list, selected,
                   outside>>

(***************************************************************************)
(* toggle_gpu_cache: the user clicks the checkbox, then the changeCommand  *)
(***************************************************************************)
ToggleGpuCache ==
    /\ Budget("none")
    /\ \E clicked \in {~gpu_checkbox}, st \in {ensure_gpu_plugin_loaded(Running, "none")} :
           IF clicked
           THEN /\ host' = st.host
                /\ log' = st.log
                /\ IF st.host.pluginLoaded
                   THEN /\ gpu_cache_enabled' = PyBool(TRUE)
                        /\ gpu_checkbox' = TRUE
                        /\ status_label' = "GPU Cache enabled"
                   ELSE /\ gpu_cache_enabled' = PyBool(FALSE)
                        /\ gpu_checkbox' = FALSE
                        /\ status_label' = "Failed to enable GPU Cache"
           ELSE /\ gpu_cache_enabled' = PyBool(FALSE)
                /\ gpu_checkbox' = FALSE
                /\ status_label' = "GPU Cache disabled"
                /\ log' = <<>>
                /\ UNCHANGED host
    /\ op' = Done("toggle_gpu_cache", <<>>, "none", "")
    /\ UNCHANGED <<disk, last_captured_settings, result_field, preset_list, selected,
                   outside>>

(***************************************************************************)
(* save_preset                                                             *)
(***************************************************************************)
\* open(preset_path, 'w') and json.dump
WriteFile(d, name, settings) ==
    [d EXCEPT !.dirs[get_preset_dir(d)] = Put(@, name, json_dump(settings))]

\* a save that writes whatever the overwrite dialog answers
SaveProceedsAlways(exists, confirm_result) == TRUE
\* whether the save goes on to write, after the overwrite dialog if any
SaveProceeds(exists, confirm_result) == ~(exists /\ confirm_result = "No")

SavePreset(result, name, confirm_result) ==
    /\ Budget("none")
    /\ log' = <<>>
    /\ IF ~Truthy(last_captured_settings)
       THEN /\ status_label' = "No settings to save"
            /\ op' = Done("save_preset", <<>>, "none", "no-settings")
            /\ UNCHANGED <<disk, preset_list, selected>>
       ELSE IF result # "Save" \/ name = ""
       THEN /\ op' = Done("save_preset", <<result, name>>, "none", "dismissed")
            /\ UNCHANGED <<disk, status_label, preset_list, selected>>
       ELSE LET d == MakeDirs(disk)
                exists == name \in DOMAIN Files(d)
                asked == IF exists THEN confirm_result ELSE ""
            IN  IF SaveProceeds(exists, confirm_result)
                THEN /\ disk' = WriteFile(d, name, last_captured_settings)
                     /\ status_label' = "Preset saved"
                     /\ preset_list' = ListedPresets(disk')
                     /\ selected' = NoSelection
                     /\ op' = Done("save_preset", <<result, name, asked>>, "none",
                                   IF exists THEN "overwritten" ELSE "created")
                ELSE /\ disk' = d
                     /\ status_label' = "Save cancelled."
                     /\ op' = Done("save_preset", <<result, name, asked>>, "none",
                                   "cancelled")
                     /\ UNCHANGED <<preset_list, selected>>
    /\ UNCHANGED <<host, last_captured_settings, gpu_cache_enabled, gpu_checkbox,
                   result_field, outside>>

(***************************************************************************)
(* load_preset                                                             *)
(***************************************************************************)
LoadPreset(fault) ==
    /\ Budget(fault)
    /\ IF selected = NoSelection
       THEN /\ status_label' = "No preset selected"
            /\ log' = <<>>
            /\ op' = Done("load_preset", <<>>, fault, "no-selection")
            /\ UNCHANGED <<host, disk, last_captured_settings, gpu_cache_enabled,
                           gpu_checkbox, result_field>>
       ELSE \E d \in {MakeDirs(disk)} :
            /\ disk' = d
            /\ IF selected \notin DOMAIN Files(d) \/ Files(d)[selected] = Corrupt
               THEN \* open() or json.load() raises
                    /\ status_label' = "Error loading preset"
                    /\ log' = <<>>
                    /\ op' = Done("load_preset", <<selected>>, fault,
                                  IF selected \in DOMAIN Files(d) THEN "corrupt"
                                  ELSE "missing")
                    /\ UNCHANGED <<host, last_captured_settings, gpu_cache_enabled,
                                   gpu_checkbox, result_field>>
               ELSE \E settings \in {json_load(Files(d)[selected])} :
                    \E mel_code \in {settings_to_mel(settings)} :
                    /\ last_captured_settings' = settings
                    /\ gpu_cache_enabled' =
                           Get(Get(settings, "plugin_display", EmptyDict), "gpuCache",
                               PyBool(FALSE))
                    /\ gpu_checkbox' = Truthy(gpu_cache_enabled')
                    /\ IF mel_code.exc # "none"
                       THEN /\ status_label' = "Error loading preset"
                            /\ log' = <<>>
                            /\ op' = Done("load_preset", <<selected>>, fault, "emit-raised")
                            /\ UNCHANGED <<host, result_field>>
                       ELSE \E st \in {MelEval(Running, mel_code.text, fault)} :
                            /\ result_field' = mel_code.text
                            /\ host' = st.host
                            /\ log' = st.log
                            /\ status_label' = IF st.exc THEN "Error loading preset"
                                               ELSE "Preset loaded and applied"
                            /\ op' = Done("load_preset", <<selected>>, fault,
                                          IF st.exc THEN "script-failed" ELSE "loaded")
    /\ UNCHANGED <<preset_list, selected, outside>>

(***************************************************************************)
(* delete_preset                                                           *)
(***************************************************************************)
\* os.remove(preset_path): the exception it raises and the files it leaves
os_remove(files, name) ==
    IF name \in DOMAIN files
    THEN [exc |-> "none", files |-> Restrict(files, DOMAIN files \ {name})]
    ELSE [exc |-> "FileNotFoundError", files |-> files]

\* a delete without the except clause: what os.remove raises escapes
DeleteEscapesUncaught(removed) == removed.exc
\* try: os.remove ... except Exception as e: the exception that escapes
DeleteEscapes(removed) == "none"

DeletePreset(result) ==
    /\ Budget("none")
    /\ log' = <<>>
    /\ IF selected = NoSelection
       THEN /\ status_label' = "No preset selected"
            /\ op' = Done("delete_preset", <<>>, "none", "no-selection")
            /\ UNCHANGED <<disk, preset_list, selected>>
       ELSE IF result # "Yes"
       THEN /\ op' = Done("delete_preset", <<selected, result>>, "none", "dismissed")
            /\ UNCHANGED <<disk, status_label, preset_list, selected>>
       ELSE LET d == MakeDirs(disk)
                removed == os_remove(Files(d), selected)
            IN  /\ disk' = [d EXCEPT !.dirs[get_preset_dir(d)] = removed.files]
                /\ IF removed.exc = "none"
                   THEN /\ status_label' = "Preset deleted"
                        /\ preset_list' = ListedPresets(disk')
                        /\ selected' = NoSelection
                        /\ op' = Done("delete_preset", <<selected, result>>, "none",
                                      "deleted")
                   ELSE /\ status_label' = "Error deleting preset"
                        /\ op' = Done("delete_preset", <<selected, result>>, "none",
                                      IF DeleteEscapes(removed) = "none" THEN "error"
                                      ELSE "raised")
                        /\ UNCHANGED <<preset_list, selected>>
    /\ UNCHANGED <<host, last_captured_settings, gpu_cache_enabled, gpu_checkbox,
                   result_field, outside>>

(***************************************************************************)
(* The user and the world around the tool.                                 *)
(***************************************************************************)
\* the user selects an item of the preset list
SelectPreset(name) ==
    /\ name \in Range(preset_list)
    /\ name # selected
    /\ selected' = name
    /\ UNCHANGED <<host, disk, last_captured_settings, gpu_cache_enabled, gpu_checkbox,
                   result_field, status_label, preset_list, log, op, ops, faults,
                   outside>>

\* the user gives focus to another viewport, still on the legacy renderer
FocusOtherViewport ==
    /\ Budget("none")
    /\ host.panel
    /\ host' = [host EXCEPT
                   !.renderer = "base_OpenGL_Renderer",
                   !.attr = [k \in HostAttrs |-> IF k \in PanelAttrs THEN LookB[k]
                                                 ELSE host.attr[k]]]
    /\ log' = <<>>
    /\ op' = Done("focus", <<>>, "none", "")
    /\ UNCHANGED <<disk, last_captured_settings, gpu_cache_enabled, gpu_checkbox,
                   result_field, status_label, preset_list, selected, outside>>

\* a preset file is removed by something other than the tool
ExternalRemove(name) ==
    /\ Budget("none")
    /\ name \in DOMAIN Files(disk)
    /\ disk' = [disk EXCEPT !.dirs[get_preset_dir(disk)] =
                                Restrict(@, DOMAIN @ \ {name})]
    /\ outside' = TRUE
    /\ log' = <<>>
    /\ op' = Done("external", <<name>>, "none", "")
    /\ UNCHANGED <<host, last_captured_settings, gpu_cache_enabled, gpu_checkbox,
                   result_field, status_label, preset_list, selected>>

Next ==
    \/ \E fault \in {"none"} \cup ReadFaults : CaptureViewport(fault)
    \/ \E fault \in {"none"} \cup WriteFaults : ApplySettings(fault)
    \/ ToggleGpuCache
    \/ \E result \in {"Save", "Cancel"}, name \in Range(PresetNames) \cup {""},
          confirm_result \in {"Yes", "No"} : SavePreset(result, name, confirm_result)
    \/ \E fault \in {"none"} \cup WriteFaults : LoadPreset(fault)
    \/ \E result \in {"Yes", "No"} : DeletePreset(result)
    \/ \E name \in Range(PresetNames) : SelectPreset(name)
    \/ FocusOtherViewport
    \/ \E name \in Range(PresetNames) : ExternalRemove(name)

Spec == Init /\ [][Next]_vars

\* the same callbacks with every host call succeeding
NextNoFault ==
    \/ CaptureViewport("none")
    \/ ApplySettings("none")
    \/ ToggleGpuCache
    \/ \E result \in {"Save", "Cancel"}, name \in Range(PresetNames) \cup {""},
          confirm_result \in {"Yes", "No"} : SavePreset(result, name, confirm_result)
    \/ LoadPreset("none")
    \/ \E result \in {"Yes", "No"} : DeletePreset(result)
    \/ \E name \in Range(PresetNames) : SelectPreset(name)
    \/ FocusOtherViewport
    \/ \E name \in Range(PresetNames) : ExternalRemove(name)

SpecNoFault == Init /\ [][NextNoFault]_vars

(***************************************************************************)
(* settings_to_mel on its own: the argument is drawn from MelInputs and    *)
(* held in last_captured_settings, the returned text in result_field.      *)
(***************************************************************************)
\* snapshots as captured, and as loaded back from a preset file
MelSnapshots ==
    {Captured(LookA, FALSE), Captured(LookB, TRUE), json_load(DocFull),
     json_load(DocUnknown)}

MelInputs ==
    {None, EmptyDict}
    \cup {Restrict(s, keep \cup {"panel"}) : s \in MelSnapshots, keep \in SUBSET Sections}
    \cup {[s EXCEPT !["background"] = Restrict(@, keep)] :
              s \in {Captured(LookA, FALSE), Captured(LookB, TRUE)},
              keep \in SUBSET Range(background_keys)}

InitMel ==
    /\ last_captured_settings \in MelInputs
    /\ host = Scene(LookA, TRUE, "vp2Renderer", TRUE, TRUE)
    /\ disk = DiskWith(FALSE, EmptyDict)
    /\ gpu_cache_enabled = PyBool(FALSE)
    /\ gpu_checkbox = FALSE
    /\ result_field = InitialText
    /\ status_label = "Ready"
    /\ preset_list = <<>>
    /\ selected = NoSelection
    /\ log = <<>>
    /\ op = Done("__init__", <<>>, "none", "")
    /\ ops = 0
    /\ faults = 0
    /\ outside = FALSE

EmitMel ==
    /\ ops = 0
    /\ ops' = 1
    /\ LET mel_code == settings_to_mel(last_captured_settings) IN
       /\ result_field' = mel_code.text
       /\ op' = Done("settings_to_mel", <<>>, "none",
                     IF mel_code.exc = "none" THEN "returned" ELSE "raised")
    /\ UNCHANGED <<host, disk, last_captured_settings, gpu_cache_enabled, gpu_checkbox,
                   status_label, preset_list, selected, log, faults, outside>>

NextMel == EmitMel

SpecMel == InitMel /\ [][NextMel]_vars

(***************************************************************************)
(* Properties.  A callback step is one that advances ops and names the     *)
(* callback in op'; op keeps the last callback across a list selection.    *)
(***************************************************************************)
StepOf(name) == ops' = ops + 1 /\ op'.name = name

PresetDir == Files(MakeDirs(disk))

\* C1: save_preset to a name whose file exists: answering No to the overwrite
\* dialog leaves the disk as it was; answering Yes makes that file the
\* serialization of last_captured_settings and leaves every other file alone.
C1_SaveStep ==
    StepOf("save_preset") /\ Len(op'.args) = 3 /\ op'.args[2] \in DOMAIN PresetDir
    => IF op'.args[3] = "No"
       THEN disk' = disk /\ op'.branch = "cancelled"
       ELSE /\ Files(disk')[op'.args[2]] = json_dump(last_captured_settings)
            /\ \A n \in DOMAIN Files(disk) \ {op'.args[2]} :
                   n \in DOMAIN Files(disk') /\ Files(disk')[n] = Files(disk)[n]
            /\ DOMAIN Files(disk') = DOMAIN Files(disk)
            /\ op'.branch = "overwritten"

C1_SaveOverExisting == [][C1_SaveStep]_vars

\* a save over an existing preset, confirmed with Yes
C1_Witness ==
    /\ op.name = "save_preset" /\ op.branch = "overwritten" /\ op.args[3] = "Yes"
    /\ Files(disk)[op.args[2]] = json_dump(last_captured_settings)

\* a tuple and a list with the same components are the same sequence
AsList(val) == IF val.t = "tuple" THEN [val EXCEPT !.t = "list"] ELSE val

TuplesAsLists(settings) ==
    [sec \in DOMAIN settings |->
        IF IsValue(settings[sec]) THEN AsList(settings[sec])
        ELSE [k \in DOMAIN settings[sec] |-> AsList(settings[sec][k])]]

\* load_preset of the name the last callback, save_preset, wrote
LoadAfterSave ==
    /\ op.name = "save_preset" /\ op.branch \in {"created", "overwritten"}
    /\ StepOf("load_preset")
    /\ selected = op.args[2]

\* C2: saving the last-captured snapshot under a name and then loading that
\* name leaves a snapshot with the same sections, keys and values, a colour
\* captured as a tuple coming back as a list of the same components.
C2_RoundTrip ==
    [][LoadAfterSave => TuplesAsLists(last_captured_settings')
                        = TuplesAsLists(last_captured_settings)]_vars

\* a captured snapshot, saved as "b" and loaded back
C2_Witness ==
    /\ op.name = "load_preset" /\ op.branch = "loaded"
    /\ ~disk.customIsDir /\ selected = "b" /\ ops = 3
    /\ last_captured_settings = json_load(Files(disk)["b"])
    /\ last_captured_settings["hardware2"]["hwFogColor"].t = "list"

\* C2 as stated: the loaded snapshot equals the saved one
C2_RoundTripExact ==
    [][LoadAfterSave => last_captured_settings' = last_captured_settings]_vars

\* the host writes apply_settings owes a snapshot, one per present field
\* (bottomColor only under a true gradient)
FieldWrites(settings) ==
    LET sec(name) == Get(settings, name, EmptyDict) IN
    {<<"camera", k>> : k \in DOMAIN sec("camera_gate") \cup DOMAIN sec("camera_mask")
                             \cup DOMAIN sec("camera_filmfit")}
    \cup {<<"modelEditor", k>> : k \in DOMAIN sec("display")}
    \cup {<<"modelEditor", "pluginObjects">> : k \in DOMAIN sec("plugin_display")}
    \cup {<<"displayPref", "displayGradient">> : k \in DOMAIN sec("background") \cap {"gradient"}}
    \cup {<<"displayRGBColor", "background">> : k \in DOMAIN sec("background") \cap {"color"}}
    \cup {<<"displayRGBColor", "backgroundTop">> :
              k \in DOMAIN sec("background") \cap {"topColor"}}
    \cup {<<"displayRGBColor", "backgroundBottom">> :
              k \in {x \in DOMAIN sec("background") \cap {"bottomColor"} :
                        Truthy(Get(sec("background"), "gradient", None))}}
    \cup {<<"setAttr", k>> : k \in DOMAIN sec("hardware2")}

Written(cmd, key) ==
    \E i \in DOMAIN log : log[i].cmd = cmd /\ log[i].key = key /\ log[i].ok

Failed(cmd, key) ==
    \E i \in DOMAIN log : log[i].cmd = cmd /\ log[i].key = key /\ ~log[i].ok

Applied == op.name = "apply_settings" /\ op.branch = "applied"

\* C3: when one field's host write fails in apply_settings, every other field
\* present in the snapshot is still written to the host.
C3_FailureIsolated ==
    Applied /\ (\E w \in FieldWrites(last_captured_settings) :
                    CallId(w[1], w[2]) = op.fault /\ Failed(w[1], w[2]))
    => \A w \in FieldWrites(last_captured_settings) :
           CallId(w[1], w[2]) # op.fault => Written(w[1], w[2])

\* C4: in a returned script, a true gradient with a bottomColor puts the
\* backgroundBottom statement after the background statement, and a false
\* gradient leaves no backgroundBottom statement.
ColorLines(text, name) ==
    {i \in DOMAIN text : Len(text[i]) = 5 /\ text[i][1] = "displayRGBColor"
                         /\ text[i][2] = "\"" \o name \o "\""}

Emitted == op.name = "settings_to_mel" /\ op.branch = "returned"

EmittedBackground == Get(last_captured_settings, "background", EmptyDict)

C4_BackgroundOrder ==
    Emitted /\ Truthy(last_captured_settings) /\ "gradient" \in DOMAIN EmittedBackground
    => IF Truthy(EmittedBackground["gradient"])
       THEN "bottomColor" \in DOMAIN EmittedBackground
            => /\ ColorLines(result_field, "backgroundBottom") # {}
               /\ \A i \in ColorLines(result_field, "background"),
                     j \in ColorLines(result_field, "backgroundBottom") : i < j
       ELSE ColorLines(result_field, "backgroundBottom") = {}

\* a script for a gradient background, with both statements
C4_Witness ==
    /\ Emitted
    /\ "bottomColor" \in DOMAIN EmittedBackground
    /\ "gradient" \in DOMAIN EmittedBackground
    /\ ColorLines(result_field, "background") # {}
    /\ Truthy(EmittedBackground["gradient"])
    /\ ColorLines(result_field, "backgroundBottom") # {}

\* C5: settings_to_mel never raises: the placeholder for no snapshot, a
\* script for every snapshot, whichever sections it has.
C5_EmitNeverRaises ==
    op.name = "settings_to_mel"
    => /\ op.branch = "returned"
       /\ ~Truthy(last_captured_settings) => result_field = Placeholder

\* C6: a confirmed delete_preset of a name whose file is not on disk sets
\* the status to the failure, lets no exception escape, removes no file and
\* leaves the rest of the session as it was.
C6_DeleteStep ==
    StepOf("delete_preset") /\ selected # NoSelection /\ selected \notin DOMAIN PresetDir
    /\ op'.args = <<selected, "Yes">>
    => /\ status_label' = "Error deleting preset"
       /\ op'.branch = "error"
       /\ disk'.dirs = disk.dirs
       /\ UNCHANGED <<host, last_captured_settings, gpu_cache_enabled, gpu_checkbox,
                      result_field, preset_list, selected>>

C6_DeleteMissing == [][C6_DeleteStep]_vars

\* the selected preset was removed from outside, then deleted in the tool
C6_Witness ==
    /\ op.name = "delete_preset" /\ op.branch = "error"
    /\ outside /\ selected \notin DOMAIN Files(disk)
    /\ status_label = "Error deleting preset"

\* the two ways to restore the held snapshot, from the present host, with no
\* call made to fail
ByApply == ApplyRun(Running, last_captured_settings, "none")
ByScript == MelEval(Running, settings_to_mel(last_captured_settings).text, "none")

\* C7: run from the same host with no write failing, the script emitted for
\* the held snapshot and apply_settings leave the same camera, display,
\* plugin filter, background and render-globals values and the same
\* plugin-loaded status.
C7_ScriptEqualsApply ==
    /\ Truthy(last_captured_settings) /\ "display" \in DOMAIN last_captured_settings
    /\ host.panel /\ host.pluginLoadable
    /\ ~ByApply.exc /\ ~ByScript.exc
    /\ \A i \in DOMAIN ByApply.log : ByApply.log[i].ok
    /\ \A i \in DOMAIN ByScript.log : ByScript.log[i].ok
    => /\ ByApply.host.attr = ByScript.host.attr
       /\ ByApply.host.pluginLoaded = ByScript.host.pluginLoaded

PluginWanted ==
    Truthy(Get(Get(last_captured_settings, "plugin_display", EmptyDict), "gpuCache", None))

\* C8: after apply_settings of a snapshot whose gpuCache flag is true on a
\* host where the plugin cannot be loaded, the filter is off,
\* gpu_cache_enabled is false and the checkbox shows false.
C8_PluginForcedOff ==
    Applied /\ PluginWanted /\ ~host.pluginLoaded /\ Failed("loadPlugin", "gpuCache")
    => /\ host.attr["gpuCacheDisplayFilter"] = PyBool(FALSE)
       /\ gpu_cache_enabled = PyBool(FALSE)
       /\ ~gpu_checkbox

\* the keys apply_settings may name in a host call
SchemaCall(e) ==
    CASE e.cmd = "camera" -> e.key \in Range(camera_gate_keys) \cup {"displayGateMask", "filmFit"}
      [] e.cmd = "modelEditor" ->
             \/ e.key \in Range(display_attrs) \cup {"pluginObjects"}
             \/ e.key = "rendererName" /\ e.val = PyStr("vp2Renderer")
      [] e.cmd = "displayPref" -> e.key = "displayGradient"
      [] e.cmd = "displayRGBColor" -> e.key \in {"background", "backgroundTop", "backgroundBottom"}
      [] e.cmd = "setAttr" -> e.key \in DOMAIN hw2_attrs \cup {"hwFogEnable"}
      [] OTHER -> TRUE

\* C9: apply_settings issues host writes only for keys of the fixed schema,
\* whatever keys the held snapshot has.
C9_OnlySchemaKeys ==
    op.name = "apply_settings" => \A i \in DOMAIN log : SchemaCall(log[i])

Chunk(i, key) == log[i].cmd = "undoInfo" /\ log[i].key = key

\* C10: apply_settings opens the undo chunk once, closes it once, and makes
\* every host call in between, the switch to Viewport 2.0 included; the
\* early returns open no chunk.
C10_OneUndoChunk ==
    op.name = "apply_settings"
    => IF op.branch = "applied"
       THEN /\ Len(log) >= 2
            /\ Chunk(1, "openChunk") /\ Chunk(Len(log), "closeChunk")
            /\ \A i \in 2..(Len(log) - 1) : log[i].cmd # "undoInfo"
       ELSE log = <<>>

\* the fields capture_settings reads: section, key, and the query that reads it
CaptureFields ==
    {<<"camera_gate", k, QueryId("camera", k)>> : k \in Range(camera_gate_keys)}
    \cup {<<"camera_mask", "displayGateMask", QueryId("camera", "displayGateMask")>>,
          <<"camera_filmfit", "filmFit", QueryId("camera", "filmFit")>>,
          <<"background", "gradient", QueryId("displayPref", "displayGradient")>>,
          <<"background", "color", QueryId("displayRGBColor", "background")>>,
          <<"background", "topColor", QueryId("displayRGBColor", "backgroundTop")>>,
          <<"background", "bottomColor", QueryId("displayRGBColor", "backgroundBottom")>>}
    \cup {<<"display", k, QueryId("modelEditor", k)>> : k \in Range(display_attrs)}
    \cup {<<"hardware2", k, QueryId("getAttr", k)>> : k \in Range(hw2_order)}

Captured1Fault ==
    op.name = "capture_viewport" /\ op.branch = "captured" /\ op.fault # "none"

\* C11: when the host read of exactly one field fails in capture_settings, a
\* snapshot is still returned, that field is absent from it and every other
\* field is present.
C11_ReadIsolated ==
    Captured1Fault
    => /\ Truthy(last_captured_settings)
       /\ \A f \in CaptureFields :
              (f[2] \in DOMAIN last_captured_settings[f[1]]) <=> (f[3] # op.fault)

\* where a host write of apply_settings belongs in the order of sections;
\* the hwFogEnable mirror is part of the display write of hwFog
WritePhase(e) ==
    CASE e.cmd = "camera" -> 1
      [] e.cmd = "modelEditor" /\ e.key = "pluginObjects" -> 3
      [] e.cmd = "modelEditor" -> 2
      [] e.cmd = "setAttr" /\ e.key = "hwFogEnable" -> 2
      [] e.cmd = "displayPref" -> 4
      [] e.cmd = "displayRGBColor" /\ e.key = "backgroundTop" -> 5
      [] e.cmd = "displayRGBColor" /\ e.key = "background" -> 6
      [] e.cmd = "displayRGBColor" /\ e.key = "backgroundBottom" -> 7
      [] e.cmd = "setAttr" -> 8
      [] OTHER -> 0

\* the field writes of the call: the logged writes after openChunk
FieldWriteAt(i) ==
    /\ WritePhase(log[i]) # 0
    /\ \E o \in 1..(i - 1) : Chunk(o, "openChunk")

MelPhase(line) ==
    IF Len(line) < 2 THEN 0
    ELSE CASE line[1] = "modelEditor" /\ line[3] = "-rendererName"
                  /\ line[4] = "\"vp2Renderer\"" -> 1
           [] line[1] = "camera" -> 2
           [] line[1] = "loadPlugin" -> 4
           [] line[1] = "modelEditor" /\ line[3] = "-pluginObjects" -> 4
           [] line[1] = "modelEditor" -> 3
           [] line[1] = "setAttr" /\ MelFlag(line[2]) = "hwFogEnable" -> 3
           [] line[1] \in {"displayPref", "displayRGBColor"} -> 5
           [] line[1] = "setAttr" -> 6
           [] OTHER -> 0

EmittedScript == Emitted /\ result_field # Placeholder

\* C13: the emitted script forces the renderer first, then writes camera
\* fields, display flags, the plugin flag with its load guard, background
\* and hardware fields in that order, and ends by calling the procedure.
C13_ScriptOrder ==
    EmittedScript
    => /\ \A i, j \in DOMAIN result_field :
              i < j /\ MelPhase(result_field[i]) # 0 /\ MelPhase(result_field[j]) # 0
              => MelPhase(result_field[i]) <= MelPhase(result_field[j])
       /\ \E i \in DOMAIN result_field : MelPhase(result_field[i]) = 1
       /\ result_field[Len(result_field)] = <<"viewportCaptureApply();">>

\* a load_preset that ends by reporting a failure
LoadFails ==
    /\ StepOf("load_preset")
    /\ status_label' \in {"No preset selected", "Error loading preset"}

\* capture_viewport or apply_settings finding no active viewport
NoViewportStep ==
    /\ StepOf("capture_viewport") \/ StepOf("apply_settings")
    /\ op'.branch = "no-viewport"

\* C14: a load_preset that reports a failure leaves last_captured_settings,
\* gpu_cache_enabled, the checkbox and the displayed script as they were;
\* capture_viewport and apply_settings without a viewport write nothing.
C14_FailureStep ==
    /\ LoadFails => UNCHANGED <<last_captured_settings, gpu_cache_enabled, gpu_checkbox,
                                result_field>>
    /\ NoViewportStep => UNCHANGED <<host, disk, last_captured_settings, gpu_cache_enabled,
                                     gpu_checkbox, result_field, preset_list, selected>>

C14_FailureNoEffect == [][C14_FailureStep]_vars

\* the host attribute a captured field is read from, and the value read
FieldAttr(f) ==
    CASE f[1] = "background" /\ f[2] = "gradient" -> "displayGradient"
      [] f[1] = "background" /\ f[2] = "color" -> "background"
      [] f[1] = "background" /\ f[2] = "topColor" -> "backgroundTop"
      [] f[1] = "background" /\ f[2] = "bottomColor" -> "backgroundBottom"
      [] OTHER -> f[2]

FieldRead(f) ==
    Query(host, IF f[1] = "hardware2" THEN "getAttr" ELSE "query", FieldAttr(f))

\* a freshly captured snapshot: the eight sections, and under each only
\* fields read from the host in this call
FreshCapture(snap) ==
    /\ DOMAIN snap = Sections \cup {"panel"}
    /\ snap["plugin_display"] = [gpuCache |-> gpu_cache_enabled]
    /\ \A sec \in Sections \ {"plugin_display"} : \A k \in DOMAIN snap[sec] :
           \E f \in CaptureFields : f[1] = sec /\ f[2] = k /\ snap[sec][k] = FieldRead(f)

\* C15: last_captured_settings changes only in a capture or a load, and then
\* to a whole new snapshot: what the capture read, or what the file holds,
\* with nothing of the previous snapshot merged in.
C15_Step ==
    /\ last_captured_settings' # last_captured_settings
       => StepOf("capture_viewport") \/ StepOf("load_preset")
    /\ StepOf("capture_viewport") /\ op'.branch = "captured"
       => FreshCapture(last_captured_settings')
    /\ StepOf("load_preset") /\ op'.branch \in {"loaded", "script-failed", "emit-raised"}
       => json_dump(last_captured_settings') = PresetDir[selected]

C15_WholesaleOnly == [][C15_Step]_vars

\* a preset without a display section loaded over a snapshot that had one:
\* the script of the earlier snapshot is still the one shown
C15_Witness ==
    /\ op.name = "load_preset" /\ op.branch = "emit-raised"
    /\ "display" \notin DOMAIN last_captured_settings
    /\ result_field \notin {InitialText, Placeholder}

\* the place of a name in the sorted order of names
Rank(n) == CHOOSE i \in DOMAIN PresetNames : PresetNames[i] = n

\* C16: as long as nothing outside the tool changes the preset directory,
\* the preset list is the sorted sequence of the names of the files in the
\* resolved directory: the same names, each once, in ascending order.
C16_ListMatchesDisk ==
    ~outside
    => /\ Range(preset_list) = DOMAIN Files(disk)
       /\ Len(preset_list) = Cardinality(DOMAIN Files(disk))
       /\ \A i, j \in DOMAIN preset_list :
              i < j => Rank(preset_list[i]) < Rank(preset_list[j])

\* a delete after a save that had added a second preset
C16_Witness ==
    /\ ~outside /\ op.name = "delete_preset" /\ op.branch = "deleted"
    /\ preset_list # <<>>
    /\ ops = 3

BoolSpelled(tok) == tok \in {"true", "false", "true;", "false;"}

\* the boolean fields and the triple fields of a section of the held snapshot
BoolKeys(sec) ==
    LET d == Get(last_captured_settings, sec, EmptyDict)
    IN  {k \in DOMAIN d : d[k].t = "bool"}

TripleKeys(sec) ==
    LET d == Get(last_captured_settings, sec, EmptyDict)
    IN  {k \in DOMAIN d : IsSequence(d[k])}

\* a statement of the script for the field, with the value token at place at
BoolStatement(cmd, flagAt, k, at) ==
    \E i \in DOMAIN result_field :
        LET line == result_field[i] IN
        /\ Len(line) >= at /\ line[1] = cmd
        /\ MelFlag(line[flagAt]) = k
        /\ BoolSpelled(line[at])

TripleStatement(cmd, k, val, from) ==
    \E i \in DOMAIN result_field :
        LET line == result_field[i] IN
        /\ Len(line) = from + 2 /\ line[1] = cmd
        /\ MelFlag(line[2]) = k
        /\ <<line[from], line[from + 1], line[from + 2]>>
               = <<val.v[1], val.v[2], val.v[3] \o ";">>

\* C17: in the emitted script every boolean of the snapshot, in the camera,
\* display, plugin display, background and hardware2 sections, is spelled
\* true or false, and every triple is three space-separated components.
C17_Spelling ==
    EmittedScript
    => /\ \A sec \in {"camera_gate", "camera_mask", "camera_filmfit"} :
              \A k \in BoolKeys(sec) : BoolStatement("camera", 3, k, 4)
       /\ \A k \in BoolKeys("display") : BoolStatement("modelEditor", 3, k, 4)
       /\ BoolStatement("modelEditor", 3, "pluginObjects", 5)
       /\ "gradient" \in BoolKeys("background")
          => BoolStatement("displayPref", 2, "displayGradient", 3)
       /\ \A k \in BoolKeys("hardware2") : BoolStatement("setAttr", 2, k, 3)
       /\ \A k \in TripleKeys("background") \cap {"color", "topColor"} :
              TripleStatement("displayRGBColor",
                              IF k = "color" THEN "background" ELSE "backgroundTop",
                              last_captured_settings["background"][k], 3)
       /\ \A k \in TripleKeys("hardware2") :
              TripleStatement("setAttr", k, last_captured_settings["hardware2"][k], 5)

\* a hardware2 statement carrying the boolean as 1 or 0
IntStatement(k, val) ==
    \E i \in DOMAIN result_field :
        LET line == result_field[i] IN
        /\ Len(line) = 3 /\ line[1] = "setAttr"
        /\ MelFlag(line[2]) = k
        /\ line[3] = (IF Truthy(val) THEN "1;" ELSE "0;")

\* C17, restated: booleans of the camera, display, plugin display and
\* background sections are spelled true or false, booleans of hardware2 are
\* emitted as 1 or 0, and every triple is three space-separated components.
C17_SpellingBySection ==
    EmittedScript
    => /\ \A sec \in {"camera_gate", "camera_mask", "camera_filmfit"} :
              \A k \in BoolKeys(sec) : BoolStatement("camera", 3, k, 4)
       /\ \A k \in BoolKeys("display") : BoolStatement("modelEditor", 3, k, 4)
       /\ BoolStatement("modelEditor", 3, "pluginObjects", 5)
       /\ "gradient" \in BoolKeys("background")
          => BoolStatement("displayPref", 2, "displayGradient", 3)
       /\ "hwFog" \in BoolKeys("display")
          => IntStatement("hwFogEnable", last_captured_settings["display"]["hwFog"])
       /\ \A k \in BoolKeys("hardware2") :
              /\ IntStatement(k, last_captured_settings["hardware2"][k])
              /\ ~BoolStatement("setAttr", 2, k, 3)
       /\ \A k \in TripleKeys("background") \cap {"color", "topColor"} :
              TripleStatement("displayRGBColor",
                              IF k = "color" THEN "background" ELSE "backgroundTop",
                              last_captured_settings["background"][k], 3)
       /\ \A k \in TripleKeys("hardware2") :
              TripleStatement("setAttr", k, last_captured_settings["hardware2"][k], 5)

\* a script for a snapshot with booleans in every section and triples in
\* background and hardware2
C17_Witness ==
    /\ EmittedScript
    /\ \A sec \in {"camera_gate", "camera_mask", "display", "plugin_display",
                   "background", "hardware2"} : BoolKeys(sec) # {}
    /\ TripleKeys("background") # {} /\ TripleKeys("hardware2") # {}

====
